---- MODULE Spec2Model ----
(***************************************************************************)
(* A model of gl1.js, the single-texture instanced 2D sprite renderer.     *)
(*                                                                         *)
(* The state is the gl1 object (draws, maxDraws, the ArrayBuffer behind    *)
(* the three typed-array views, jsImage, texSizeX/Y, ready), the GL state  *)
(* it drives (the vertex buffer, the attribute pointers, the uniforms, the *)
(* viewport) and the canvas it was given.  The ArrayBuffer and the vertex  *)
(* buffer are modelled byte by byte; typed-array stores are little-endian  *)
(* and a store past the end of a view is dropped, as in JavaScript.        *)
(*                                                                         *)
(* 32-bit values (the rgba word, the float32 bit pattern of a rotation)    *)
(* are written as four base-256 digits, most significant first, so that    *)
(* 0xFFFFFF7F is <<255,255,255,127>>.  Shader arithmetic is exact          *)
(* rational arithmetic; cos and sin are a table of exact values for the    *)
(* sampled angles.                                                         *)
(***************************************************************************)
EXTENDS Integers, Sequences, FiniteSets, TLC

VARIABLES
    phase,          \* "new" before gl1.setup, "ready" after it
    maxDraws,       \* gl1.maxDraws
    draws,          \* gl1.draws
    buf,            \* the bytes of arrayBuffer (positions/rotations/rgbas alias it)
    attribs,        \* vertexAttribPointer state of the instanced attributes
    vbo,            \* the bytes of the GL vertex buffer bound to ARRAY_BUFFER
    canvas,         \* <<width, height>> of gl1.canvas
    viewport,       \* <<width, height>> of the GL viewport
    uCanvasSizeX,   \* uniform, a rational <<num, den>>
    uCanvasSizeY,   \* uniform, a rational <<num, den>>
    uTexSize,       \* uniform vec2
    jsImage,        \* gl1.jsImage: <<width, height>> of the atlas image, <<>> if none
    texSize,        \* <<gl1.texSizeX, gl1.texSizeY>>
    ready,          \* gl1.ready
    loading,        \* an Image started by setup whose onload has not run yet
    glCalls,        \* the GL calls issued by the operation that led to this state
    rendered,       \* what the last instanced draw put through the shaders
    op,             \* the operation that led to this state
    thrown,         \* the exception that operation raised, "none" if it returned
    frameArgs,      \* history: the arguments of the draws since the last flush
    drawCalls,      \* history: how many draws were issued in all
    resizeLog       \* history: the canvas and the uniforms of the last two resizes

vars == <<phase, maxDraws, draws, buf, attribs, vbo, canvas, viewport,
          uCanvasSizeX, uCanvasSizeY, uTexSize, jsImage, texSize, ready, loading,
          glCalls, rendered, op, thrown, frameArgs, drawCalls, resizeLog>>

(***************************************************************************)
(* Bounds of the model.                                                    *)
(***************************************************************************)
MaxCapacity == 2
MaxDrawCalls == 3
MaxDrawCallsFull == 1

(***************************************************************************)
(* Exact arithmetic used for the uniforms and the shaders.                 *)
(***************************************************************************)
Abs(n) == IF n < 0 THEN -n ELSE n

Min(a, b) == IF a < b THEN a ELSE b

RECURSIVE GCD(_, _)
GCD(a, b) == IF b = 0 THEN a ELSE GCD(b, a % b)

RECURSIVE Pow2(_)
Pow2(n) == IF n = 0 THEN 1 ELSE 2 * Pow2(n - 1)

\* The rational n/d in lowest terms with a positive denominator.
Rat(n, d) ==
    LET g == GCD(Abs(n), Abs(d))
        s == IF d < 0 THEN -1 ELSE 1
    IN  <<(s * n) \div g, (s * d) \div g>>

RAdd(p, q) == Rat(p[1] * q[2] + q[1] * p[2], p[2] * q[2])

RSub(p, q) == Rat(p[1] * q[2] - q[1] * p[2], p[2] * q[2])

RMul(p, q) == Rat(p[1] * q[1], p[2] * q[2])

(***************************************************************************)
(* Typed-array stores into the shared ArrayBuffer.                         *)
(***************************************************************************)
NoArg == << >>

\* An absent or falsy rgba is replaced by 0xFFFFFF7F.
StoredRgba(rgba) ==
    IF rgba = NoArg \/ rgba = <<0, 0, 0, 0>> THEN <<255, 255, 255, 127>> ELSE rgba

\* float32 bit patterns that JavaScript treats as falsy: +0, -0 and NaN.
FloatIsZero(bits) == bits = <<0, 0, 0, 0>> \/ bits = <<128, 0, 0, 0>>

FloatIsNaN(bits) ==
    /\ bits[1] % 128 = 127
    /\ bits[2] >= 128
    /\ <<bits[2] % 128, bits[3], bits[4]>> # <<0, 0, 0>>

\* An absent or falsy rotation is replaced by 0.
StoredRotation(rotation) ==
    IF rotation = NoArg \/ FloatIsZero(rotation) \/ FloatIsNaN(rotation)
    THEN <<0, 0, 0, 0>>
    ELSE rotation

\* view[i] = v on a Uint32Array or a Float32Array over bytes b.
SetWord32(b, i, v) ==
    IF 4 * i + 3 \in DOMAIN b
    THEN [b EXCEPT ![4 * i] = v[4], ![4 * i + 1] = v[3],
                   ![4 * i + 2] = v[2], ![4 * i + 3] = v[1]]
    ELSE b

\* view[i] = v on an Int16Array over bytes b: v is reduced modulo 2^16.
SetInt16(b, i, v) ==
    IF 2 * i + 1 \in DOMAIN b
    THEN [b EXCEPT ![2 * i] = (v % 65536) % 256, ![2 * i + 1] = (v % 65536) \div 256]
    ELSE b

\* The index of the first 32-bit slot of the record being written.
RecordBase(d) == d * 6

RECURSIVE StoreShorts(_, _, _)
StoreShorts(b, i, values) ==
    IF values = << >> THEN b
    ELSE StoreShorts(SetInt16(b, i, Head(values)), i + 1, Tail(values))

\* The body of drawImage: the buffer after the ten stores.
Stored(b, d, texPartX, texPartY, texPartSizeX, texPartSizeY, drawX, drawY, sizeX, sizeY, rgba, rotation) ==
    LET i  == RecordBase(d)
        b1 == SetWord32(b, i + 4, StoredRgba(rgba))
        b2 == SetWord32(b1, i + 5, StoredRotation(rotation))
    IN  StoreShorts(b2, i * 2, <<drawX, drawY, sizeX, sizeY,
                                 texPartX, texPartY, texPartSizeX, texPartSizeY>>)

(***************************************************************************)
(* setup: the record size, the buffer, the attribute pointers.             *)
(***************************************************************************)
BytesPerImage == 2 * 2 + 2 * 2 + 4 * 2 + 4 + 1 * 4

AttributeCalls ==
    << [name |-> "aPos",      dataType |-> "SHORT",         amount |-> 2],
       [name |-> "aSize",     dataType |-> "SHORT",         amount |-> 2],
       [name |-> "aTexPos",   dataType |-> "SHORT",         amount |-> 4],
       [name |-> "aRgba",     dataType |-> "UNSIGNED_BYTE", amount |-> 4],
       [name |-> "aRotation", dataType |-> "FLOAT",         amount |-> 1] >>

\* The bytes one setupAttribute call advances byteOffset by.
AttributeBytes(dataType, amount) ==
    IF dataType = "SHORT" THEN amount * 2
    ELSE IF dataType = "FLOAT" THEN amount * 4
    ELSE amount

\* The calls of setupAttribute in order, each at the running byteOffset.
RECURSIVE SetupAttributes(_, _)
SetupAttributes(calls, byteOffset) ==
    IF calls = << >> THEN << >>
    ELSE LET c == Head(calls)
         IN  << [name |-> c.name, dataType |-> c.dataType, amount |-> c.amount,
                 stride |-> BytesPerImage, offset |-> byteOffset, divisor |-> 1] >>
             \o SetupAttributes(Tail(calls),
                                byteOffset + AttributeBytes(c.dataType, c.amount))

ZeroBytes(n) == [i \in 0..(n - 1) |-> 0]

\* The number of records the ArrayBuffer allocated at setup holds.
Capacity == Cardinality(DOMAIN buf) \div BytesPerImage

(***************************************************************************)
(* The GPU side: attribute fetch and the two shader stages.                *)
(***************************************************************************)
Attribute(name) ==
    LET k == CHOOSE k \in DOMAIN attribs : attribs[k].name = name IN attribs[k]

SignedShort(lo, hi) ==
    LET u == lo + 256 * hi IN IF u >= 32768 THEN u - 65536 ELSE u

\* Component j (from 0) of attribute name for instance inst, read from bytes b.
FetchComponent(b, inst, name, j) ==
    LET a    == Attribute(name)
        base == inst * a.stride * a.divisor + a.offset
    IN  IF a.dataType = "SHORT"
        THEN SignedShort(b[base + 2 * j], b[base + 2 * j + 1])
        ELSE IF a.dataType = "FLOAT"
        THEN <<b[base + 4 * j + 3], b[base + 4 * j + 2],
               b[base + 4 * j + 1], b[base + 4 * j]>>
        ELSE b[base + j]

Fetch(b, inst, name) ==
    [j \in 1..Attribute(name).amount |-> FetchComponent(b, inst, name, j - 1)]

\* The four entries of the aSizeMult vertex stream.
SizeMults == << <<0, 0>>, <<0, 1>>, <<1, 0>>, <<1, 1>> >>

HalfPiBits == <<63, 201, 15, 219>>
MinusHalfPiBits == <<191, 201, 15, 219>>
Atan43Bits == <<63, 109, 99, 56>>

\* cos and sin of the sampled angles, exact.
GpuCos(bits) ==
    CASE bits = HalfPiBits -> <<0, 1>>
      [] bits = MinusHalfPiBits -> <<0, 1>>
      [] bits = Atan43Bits -> <<3, 5>>
      [] OTHER -> <<1, 1>>

GpuSin(bits) ==
    CASE bits = HalfPiBits -> <<1, 1>>
      [] bits = MinusHalfPiBits -> <<-1, 1>>
      [] bits = Atan43Bits -> <<4, 5>>
      [] OTHER -> <<0, 1>>

\* A rotation about the sprite's top-left corner instead of its centre.
VertexDrawPosAboutCorner(aPos, aSize, aRotation, aSizeMult) ==
    IF ~FloatIsZero(aRotation)
    THEN LET goX == GpuCos(aRotation)
             goY == GpuSin(aRotation)
             cx  == Rat(aSize[1] * aSizeMult[1], 1)
             cy  == Rat(aSize[2] * aSizeMult[2], 1)
         IN  << RAdd(Rat(aPos[1], 1), RSub(RMul(goX, cx), RMul(goY, cy))),
                RAdd(Rat(aPos[2], 1), RAdd(RMul(goY, cx), RMul(goX, cy))) >>
    ELSE << Rat(aPos[1] + aSize[1] * aSizeMult[1], 1),
            Rat(aPos[2] + aSize[2] * aSizeMult[2], 1) >>

\* main() of the vertex shader up to drawPos, for one corner.
VertexDrawPos(aPos, aSize, aRotation, aSizeMult) ==
    IF ~FloatIsZero(aRotation)
    THEN LET goX == GpuCos(aRotation)
             goY == GpuSin(aRotation)
             cx  == Rat(aSize[1] * (2 * aSizeMult[1] - 1), 2)
             cy  == Rat(aSize[2] * (2 * aSizeMult[2] - 1), 2)
         IN  << RAdd(RAdd(Rat(aPos[1], 1), RSub(RMul(goX, cx), RMul(goY, cy))),
                     Rat(aSize[1], 2)),
                RAdd(RAdd(Rat(aPos[2], 1), RAdd(RMul(goY, cx), RMul(goX, cy))),
                     Rat(aSize[2], 2)) >>
    ELSE << Rat(aPos[1] + aSize[1] * aSizeMult[1], 1),
            Rat(aPos[2] + aSize[2] * aSizeMult[2], 1) >>

\* The value (n/d) * 2^(e/16), as <<num, den, e>> with num/den in lowest terms,
\* 0 <= e < 16, and e = 0 when the value is 0.
Scaled(n, d, e) ==
    LET q == Rat(n * Pow2(e \div 16), d)
    IN  <<q[1], q[2], IF q[1] = 0 THEN 0 ELSE e % 16>>

\* A decode that scales alpha by 255, as it does the colour channels.
FragAbgrAlpha255(aRgba) ==
    IF aRgba[1] > 127
    THEN << Scaled(aRgba[4], 255, aRgba[1] - 127),
            Scaled(aRgba[3], 255, aRgba[1] - 127),
            Scaled(aRgba[2], 255, aRgba[1] - 127),
            Scaled(1, 1, 0) >>
    ELSE << Scaled(aRgba[4], 255, 0),
            Scaled(aRgba[3], 255, 0),
            Scaled(aRgba[2], 255, 0),
            Scaled(aRgba[1], 255, 0) >>

\* The tint branch of the vertex shader: fragAbgr from aRgba = (x, y, z, w).
FragAbgr(aRgba) ==
    IF aRgba[1] > 127
    THEN << Scaled(aRgba[4], 255, aRgba[1] - 127),
            Scaled(aRgba[3], 255, aRgba[1] - 127),
            Scaled(aRgba[2], 255, aRgba[1] - 127),
            Scaled(1, 1, 0) >>
    ELSE << Scaled(aRgba[4], 255, 0),
            Scaled(aRgba[3], 255, 0),
            Scaled(aRgba[2], 255, 0),
            Scaled(aRgba[1], 127, 0) >>

\* One instance through the vertex stage: the attributes it fetched from bytes b,
\* the screen position of each of its four corners and its colour multiplier.
Instance(b, inst) ==
    LET aPos      == Fetch(b, inst, "aPos")
        aSize     == Fetch(b, inst, "aSize")
        aRgba     == Fetch(b, inst, "aRgba")
        aRotation == Fetch(b, inst, "aRotation")[1]
    IN  [ aPos |-> aPos, aSize |-> aSize, aTexPos |-> Fetch(b, inst, "aTexPos"),
          aRgba |-> aRgba, aRotation |-> aRotation,
          corners |-> [m \in 1..4 |-> VertexDrawPos(aPos, aSize, aRotation, SizeMults[m])],
          fragAbgr |-> FragAbgr(aRgba) ]

(***************************************************************************)
(* The inputs the operations are called with.                              *)
(***************************************************************************)
Args(texPartX, texPartY, texPartSizeX, texPartSizeY, drawX, drawY, sizeX, sizeY, rgba, rotation) ==
    [ texPartX |-> texPartX, texPartY |-> texPartY,
      texPartSizeX |-> texPartSizeX, texPartSizeY |-> texPartSizeY,
      drawX |-> drawX, drawY |-> drawY, sizeX |-> sizeX, sizeY |-> sizeY,
      rgba |-> rgba, rotation |-> rotation ]

\* drawImage calls of the frame specification: negative and multi-byte shorts,
\* a value outside the int16 range, every tint case and every rotation case.
FrameSamples ==
    { Args(512, 7, 16, 33, -3, 300, 64, 48, NoArg, NoArg),
      Args(0, 0, 8, 8, 10, 20, 30, 40, <<0, 0, 0, 0>>, <<0, 0, 0, 0>>),
      Args(1, 2, 3, 4, 5, 6, 10, 20, <<255, 0, 0, 0>>, HalfPiBits),
      Args(9, 9, 2, 2, -7, -9, 6, 4, <<255, 255, 255, 143>>, Atan43Bits),
      Args(40000, 1, 1, 1, 100, -200, 7, 3, <<0, 255, 0, 127>>, MinusHalfPiBits),
      Args(4, 4, 4, 4, 1, 1, 2, 2, <<255, 255, 255, 127>>, NoArg) }

\* drawRect calls of the frame specification.
RectSamples ==
    { [drawX |-> 0, drawY |-> 0, sizeX |-> 320, sizeY |-> 200,
       rgba |-> <<0, 0, 0, 64>>, rotation |-> NoArg] }

\* drawImage calls of the full specification.
FewSamples ==
    { Args(512, 7, 16, 33, -3, 300, 64, 48, <<255, 128, 0, 100>>, HalfPiBits) }

CanvasSizes == { <<2, 2>>, <<3, 2>>, <<3, 5>> }

Images == { <<4, 2>>, <<8, 8>> }

\* texFileName: the empty string is falsy, as an absent argument is.
FileNames == { "", "atlas.png" }

(***************************************************************************)
(* The state of the gl1 object literal, before setup.                      *)
(***************************************************************************)
Init ==
    /\ phase = "new"
    /\ maxDraws \in 1..MaxCapacity
    /\ draws = 0
    /\ buf = << >>
    /\ attribs = << >>
    /\ vbo = << >>
    /\ canvas = <<2, 2>>
    /\ viewport = <<0, 0>>
    /\ uCanvasSizeX = <<0, 1>>
    /\ uCanvasSizeY = <<0, 1>>
    /\ uTexSize = <<0, 0>>
    /\ jsImage = << >>
    /\ texSize = <<0, 0>>
    /\ ready = FALSE
    /\ loading = FALSE
    /\ glCalls = << >>
    /\ rendered = << >>
    /\ op = "new"
    /\ thrown = "none"
    /\ frameArgs = << >>
    /\ drawCalls = 0
    /\ resizeLog = << >>

\* A method called before setup reads a property of undefined and throws.
Throws(name) ==
    /\ phase = "new"
    /\ op' = name
    /\ thrown' = "TypeError"
    /\ glCalls' = << >>
    /\ UNCHANGED <<phase, maxDraws, draws, buf, attribs, vbo, canvas, viewport,
                   uCanvasSizeX, uCanvasSizeY, uTexSize, jsImage, texSize, ready,
                   loading, rendered, frameArgs, drawCalls, resizeLog>>

Returns(name) ==
    /\ phase = "ready"
    /\ op' = name
    /\ thrown' = "none"

(***************************************************************************)
(* setup(canvas, texFileName)                                              *)
(***************************************************************************)
\* The model follows one renderer through one setup.  A fresh GL context has
\* its viewport at the canvas size and its uniforms at 0; setup does not call
\* resize.
Setup(texFileName) ==
    /\ phase = "new"
    /\ phase' = "ready"
    /\ op' = "setup"
    /\ thrown' = "none"
    /\ buf' = ZeroBytes(maxDraws * BytesPerImage)
    /\ vbo' = ZeroBytes(maxDraws * BytesPerImage)
    /\ attribs' = SetupAttributes(AttributeCalls, 0)
    /\ viewport' = canvas
    /\ loading' = (texFileName # "")
    /\ glCalls' = << [fn |-> "bufferData", args |-> <<maxDraws * BytesPerImage>>] >>
    /\ UNCHANGED <<maxDraws, draws, canvas, uCanvasSizeX, uCanvasSizeY, uTexSize,
                   jsImage, texSize, ready, rendered, frameArgs, drawCalls, resizeLog>>

(***************************************************************************)
(* drawImage and drawRect                                                  *)
(***************************************************************************)
\* The value of this.draws after drawImage.
DrawsAfterDraw(d) == d + 1

DrawImageBody(texPartX, texPartY, texPartSizeX, texPartSizeY, drawX, drawY, sizeX, sizeY, rgba, rotation) ==
    /\ drawCalls < MaxDrawCalls
    /\ buf' = Stored(buf, draws, texPartX, texPartY, texPartSizeX, texPartSizeY,
                     drawX, drawY, sizeX, sizeY, rgba, rotation)
    /\ draws' = DrawsAfterDraw(draws)
    /\ glCalls' = << >>
    /\ frameArgs' = Append(frameArgs,
                           Args(texPartX, texPartY, texPartSizeX, texPartSizeY,
                                drawX, drawY, sizeX, sizeY, rgba, rotation))
    /\ drawCalls' = drawCalls + 1
    /\ UNCHANGED <<phase, maxDraws, attribs, vbo, canvas, viewport, uCanvasSizeX,
                   uCanvasSizeY, uTexSize, jsImage, texSize, ready, loading,
                   rendered, resizeLog>>

DrawImage(texPartX, texPartY, texPartSizeX, texPartSizeY, drawX, drawY, sizeX, sizeY, rgba, rotation) ==
    \/ Throws("drawImage")
    \/ /\ Returns("drawImage")
       /\ DrawImageBody(texPartX, texPartY, texPartSizeX, texPartSizeY,
                        drawX, drawY, sizeX, sizeY, rgba, rotation)

DrawRect(drawX, drawY, sizeX, sizeY, rgba, rotation) ==
    \/ Throws("drawRect")
    \/ /\ Returns("drawRect")
       /\ DrawImageBody(0, 0, 1, 1, drawX, drawY, sizeX, sizeY, rgba, rotation)

(***************************************************************************)
(* drawEverything                                                          *)
(***************************************************************************)
\* An upload of the whole view, whatever was drawn.
UploadSlotsWhole(d) == Cardinality(DOMAIN buf) \div 4

\* The length, in 32-bit slots, of rgbas.subarray(0, d*6): subarray clamps its
\* end to the length of the view.
UploadSlots(d) == Min(d * 6, Cardinality(DOMAIN buf) \div 4)

\* The destination byte offset given to bufferSubData.
UploadOffset == 0

\* The count given to drawElementsInstancedANGLE.
IndexCount == 6

\* The primcount given to drawElementsInstancedANGLE.
InstanceCount(d) == d

\* A flush that forgets to rewind the counter.
DrawsKeptAfterFlush == draws

\* The value of this.draws after drawEverything.
DrawsAfterFlush == 0

\* The vertex buffer after bufferSubData(ARRAY_BUFFER, offset, data).
SubData(dst, offset, data, length) ==
    [i \in DOMAIN dst |->
        IF offset <= i /\ i < offset + length THEN data[i - offset] ELSE dst[i]]

\* What an instanced draw of primcount instances puts through the shaders when
\* the vertex buffer holds bytes b.  Instances whose record lies outside the
\* buffer are outside what WebGL defines: the call is rejected and draws
\* nothing, or the fetch is clamped and reads zeros.
Drawn(b, primcount, outcome) ==
    IF outcome = "rejected" THEN << >>
    ELSE [k \in 1..primcount |->
            IF k * BytesPerImage <= Cardinality(DOMAIN b)
            THEN Instance(b, k - 1)
            ELSE Instance(ZeroBytes(BytesPerImage), 0)]

Outcomes(b, primcount) ==
    IF primcount * BytesPerImage > Cardinality(DOMAIN b)
    THEN {"rejected", "clamped"}
    ELSE {"drawn"}

DrawEverything ==
    \/ Throws("drawEverything")
    \/ /\ Returns("drawEverything")
       /\ vbo' = SubData(vbo, UploadOffset, buf, 4 * UploadSlots(draws))
       /\ glCalls' =
            << [fn |-> "clear", args |-> << >>],
               [fn |-> "bufferSubData",
                args |-> <<UploadOffset, 4 * UploadSlots(draws)>>],
               [fn |-> "drawElementsInstancedANGLE",
                args |-> <<IndexCount, InstanceCount(draws)>>] >>
       /\ \E outcome \in Outcomes(vbo, InstanceCount(draws)) :
            rendered' = Drawn(vbo', InstanceCount(draws), outcome)
       /\ draws' = DrawsAfterFlush
       /\ frameArgs' = << >>
       /\ UNCHANGED <<phase, maxDraws, buf, attribs, canvas, viewport, uCanvasSizeX,
                      uCanvasSizeY, uTexSize, jsImage, texSize, ready, loading,
                      drawCalls, resizeLog>>

(***************************************************************************)
(* resize and loadTexFromJsImage                                           *)
(***************************************************************************)
\* A half taken with integer division.
HalfCanvasTruncated(side) == Rat(side \div 2, 1)

\* The value given to uniform1f for a canvas side.
HalfCanvas(side) == Rat(side, 2)

LastTwo(s) == IF Len(s) > 2 THEN Tail(s) ELSE s

ResizeCalls ==
    << [fn |-> "viewport", args |-> <<0, 0, canvas[1], canvas[2]>>],
       [fn |-> "uniform1f", args |-> <<"uCanvasSizeX", HalfCanvas(canvas[1])>>],
       [fn |-> "uniform1f", args |-> <<"uCanvasSizeY", HalfCanvas(canvas[2])>>] >>

ResizeBody ==
    /\ viewport' = canvas
    /\ uCanvasSizeX' = HalfCanvas(canvas[1])
    /\ uCanvasSizeY' = HalfCanvas(canvas[2])
    /\ resizeLog' = LastTwo(Append(resizeLog,
                        [canvas |-> canvas, uCanvasSizeX |-> HalfCanvas(canvas[1]),
                         uCanvasSizeY |-> HalfCanvas(canvas[2])]))

Resize ==
    \/ Throws("resize")
    \/ /\ Returns("resize")
       /\ ResizeBody
       /\ glCalls' = ResizeCalls
       /\ UNCHANGED <<phase, maxDraws, draws, buf, attribs, vbo, canvas, uTexSize,
                      jsImage, texSize, ready, loading, rendered, frameArgs,
                      drawCalls>>

LoadTexBody(image) ==
    /\ jsImage' = image
    /\ texSize' = image
    /\ uTexSize' = image
    /\ ResizeBody
    /\ glCalls' = << [fn |-> "texImage2D", args |-> image],
                     [fn |-> "uniform2f", args |-> <<"uTexSize", image[1], image[2]>>] >>
                  \o ResizeCalls
    /\ UNCHANGED <<phase, maxDraws, draws, buf, attribs, vbo, canvas, rendered,
                   frameArgs, drawCalls>>

LoadTexFromJsImage(image) ==
    \/ Throws("loadTexFromJsImage")
    \/ /\ Returns("loadTexFromJsImage")
       /\ LoadTexBody(image)
       /\ UNCHANGED <<ready, loading>>

\* image.onload of the Image that setup started.
ImageOnload(image) ==
    /\ loading
    /\ Returns("onload")
    /\ LoadTexBody(image)
    /\ ready' = TRUE
    /\ loading' = FALSE

\* The page changes the size of the canvas element.
CanvasResized(size) ==
    /\ size # canvas
    /\ canvas' = size
    /\ op' = "canvasResized"
    /\ thrown' = "none"
    /\ glCalls' = << >>
    /\ UNCHANGED <<phase, maxDraws, draws, buf, attribs, vbo, viewport, uCanvasSizeX,
                   uCanvasSizeY, uTexSize, jsImage, texSize, ready, loading,
                   rendered, frameArgs, drawCalls, resizeLog>>

(***************************************************************************)
(* Specifications.                                                         *)
(***************************************************************************)
DrawImageOf(a) ==
    DrawImage(a.texPartX, a.texPartY, a.texPartSizeX, a.texPartSizeY,
              a.drawX, a.drawY, a.sizeX, a.sizeY, a.rgba, a.rotation)

DrawRectOf(a) == DrawRect(a.drawX, a.drawY, a.sizeX, a.sizeY, a.rgba, a.rotation)

FewDrawImage(a) == drawCalls < MaxDrawCallsFull /\ DrawImageOf(a)

FewDrawRect(a) == drawCalls < MaxDrawCallsFull /\ DrawRectOf(a)

\* Every operation, with one drawImage call and one drawRect call to choose from.
Next ==
    \/ \E f \in FileNames : Setup(f)
    \/ \E a \in FewSamples : FewDrawImage(a)
    \/ \E a \in RectSamples : FewDrawRect(a)
    \/ DrawEverything
    \/ Resize
    \/ \E image \in Images : LoadTexFromJsImage(image)
    \/ \E image \in Images : ImageOnload(image)
    \/ \E size \in CanvasSizes : CanvasResized(size)

Spec == Init /\ [][Next]_vars

\* Frames only: setup without an atlas file, then draws and flushes, with the
\* full set of draw arguments.
NextFrame ==
    \/ Setup("")
    \/ \E a \in FrameSamples : DrawImageOf(a)
    \/ \E a \in RectSamples : DrawRectOf(a)
    \/ DrawEverything

SpecFrame == Init /\ [][NextFrame]_vars

(***************************************************************************)
(* Vocabulary of the properties.                                           *)
(***************************************************************************)
IsDrawStep == op' \in {"drawImage", "drawRect"} /\ thrown' = "none"

IsFlushStep == op' = "drawEverything" /\ thrown' = "none"

IsResizeStep == op' = "resize" /\ thrown' = "none"

Flushed == op = "drawEverything" /\ thrown = "none"

\* The draws of the current frame whose record has a slot in the buffer.
FrameSlots == 0..(Min(Len(frameArgs), Capacity) - 1)

AsInt16(v) == ((v + 32768) % 65536) - 32768

\* The two bytes of an int16, low byte first.
ShortBytes(v) ==
    LET u == IF AsInt16(v) < 0 THEN AsInt16(v) + 65536 ELSE AsInt16(v)
    IN  <<u % 256, u \div 256>>

\* The four tint bytes of a record in a, b, g, r order for the tint a caller
\* gave as 0xRRGGBBAA; a=127, r=g=b=255 when the caller gave none.
TintBytes(rgba) ==
    IF rgba = NoArg THEN <<127, 255, 255, 255>>
    ELSE <<rgba[4], rgba[3], rgba[2], rgba[1]>>

\* The four bytes of a float32, low byte first; 0 when the caller gave none.
FloatBytes(rotation) ==
    IF rotation = NoArg THEN <<0, 0, 0, 0>>
    ELSE <<rotation[4], rotation[3], rotation[2], rotation[1]>>

\* The 24 bytes of the wire layout for the arguments a of one draw.
WireRecord(a) ==
    ShortBytes(a.drawX) \o ShortBytes(a.drawY) \o ShortBytes(a.sizeX)
    \o ShortBytes(a.sizeY) \o ShortBytes(a.texPartX) \o ShortBytes(a.texPartY)
    \o ShortBytes(a.texPartSizeX) \o ShortBytes(a.texPartSizeY)
    \o TintBytes(a.rgba) \o FloatBytes(a.rotation)

\* Bytes [24k + from, 24k + to] of b.
RecordBytes(b, k, from, to) == [j \in 1..(to - from + 1) |-> b[24 * k + from + j - 1]]

Submissions(calls) ==
    {k \in DOMAIN calls : calls[k].fn = "drawElementsInstancedANGLE"}

Uploads(calls) == {k \in DOMAIN calls : calls[k].fn = "bufferSubData"}

(***************************************************************************)
(* C1.  A draw issued when draws already equals the capacity raises        *)
(* CapacityExceeded, appends no record and leaves draws as it was.         *)
(***************************************************************************)
C1_CapacityExceeded ==
    [][ (phase = "ready" /\ draws = Capacity /\ op' \in {"drawImage", "drawRect"})
        => (thrown' = "CapacityExceeded" /\ draws' = draws /\ buf' = buf) ]_vars

(***************************************************************************)
(* C2.  After setup, 0 <= draws <= capacity in every reachable state.      *)
(***************************************************************************)
C2_PendingWithinCapacity ==
    phase = "ready" => (0 <= draws /\ draws <= Capacity)

(***************************************************************************)
(* C3.  Every flush issues exactly one instanced draw, of 6 indices, whose *)
(* instance count is the number of draws made since the previous flush,    *)
(* and leaves draws at 0.                                                  *)
(***************************************************************************)
C3_FlushSubmitsFrame ==
    [][ IsFlushStep =>
          /\ Cardinality(Submissions(glCalls')) = 1
          /\ \A k \in Submissions(glCalls') :
                glCalls'[k].args = <<6, Len(frameArgs)>>
          /\ draws' = 0 ]_vars

\* A one-draw frame is flushed after three earlier draws.
C3_Witness ==
    /\ Flushed
    /\ drawCalls = 3
    /\ \E k \in Submissions(glCalls) : glCalls[k].args = <<6, 1>>

(***************************************************************************)
(* C4.  Every flush uploads one region, at byte offset 0 of the vertex     *)
(* buffer, of at most draws * 24 bytes, and changes no byte of the vertex  *)
(* buffer beyond it.                                                       *)
(***************************************************************************)
C4_UploadWithinPending ==
    [][ IsFlushStep =>
          /\ Cardinality(Uploads(glCalls')) = 1
          /\ \A k \in Uploads(glCalls') :
                /\ glCalls'[k].args[1] = 0
                /\ glCalls'[k].args[2] <= draws * 24
          /\ \A i \in DOMAIN vbo : i >= draws * 24 => vbo'[i] = vbo[i] ]_vars

\* A flush of one record into a vertex buffer of two.
C4_Witness ==
    /\ Flushed
    /\ Capacity = 2
    /\ \E k \in Uploads(glCalls) : glCalls[k].args = <<0, 24>>

(***************************************************************************)
(* C5.  The k-th draw of a frame (k < capacity) writes the wire record of  *)
(* its arguments at bytes [24k, 24k+24) and changes no other byte, and a   *)
(* flush leaves in record k of the vertex buffer the wire record of the    *)
(* arguments of the k-th draw of the frame.                                *)
(***************************************************************************)
C5_RecordLayout ==
    [][ /\ (IsDrawStep /\ draws < Capacity) =>
              /\ RecordBytes(buf', draws, 0, 23) = WireRecord(frameArgs'[Len(frameArgs')])
              /\ \A i \in DOMAIN buf :
                    (i < 24 * draws \/ i >= 24 * draws + 24) => buf'[i] = buf[i]
        /\ IsFlushStep =>
              \A k \in FrameSlots :
                 RecordBytes(vbo', k, 0, 23) = WireRecord(frameArgs[k + 1]) ]_vars

\* The same layout with the tint word and the rotation as drawImage defaults
\* them: every byte but a falsy tint's is where the wire layout puts it.
StoredArgs(a) ==
    [a EXCEPT !.rgba = StoredRgba(a.rgba), !.rotation = StoredRotation(a.rotation)]

LayoutOfStoredValues ==
    [][ /\ (IsDrawStep /\ draws < Capacity) =>
              /\ RecordBytes(buf', draws, 0, 23)
                    = WireRecord(StoredArgs(frameArgs'[Len(frameArgs')]))
              /\ \A i \in DOMAIN buf :
                    (i < 24 * draws \/ i >= 24 * draws + 24) => buf'[i] = buf[i]
        /\ IsFlushStep =>
              \A k \in FrameSlots :
                 RecordBytes(vbo', k, 0, 23) = WireRecord(StoredArgs(frameArgs[k + 1])) ]_vars

(***************************************************************************)
(* C6.  The tint bytes of a record are those of the tint the caller gave,  *)
(* for every tint value, the all-zero one included; the default is stored  *)
(* only when the caller gave none.                                         *)
(***************************************************************************)
C6_TintStoredAsGiven ==
    phase = "ready" =>
        \A k \in FrameSlots :
            RecordBytes(buf, k, 16, 19) = TintBytes(frameArgs[k + 1].rgba)

(***************************************************************************)
(* C7.  resize sets the two scale uniforms to half the canvas width and    *)
(* height and leaves draws, the buffer, the vertex buffer and the atlas    *)
(* with its cached size alone; two resizes at different canvas sizes leave *)
(* different uniforms.                                                     *)
(***************************************************************************)
IsHalfOf(u, side) == u[2] > 0 /\ 2 * u[1] = side * u[2]

ResizesDiffer ==
    \A i, j \in DOMAIN resizeLog :
        resizeLog[i].canvas # resizeLog[j].canvas =>
            <<resizeLog[i].uCanvasSizeX, resizeLog[i].uCanvasSizeY>>
                # <<resizeLog[j].uCanvasSizeX, resizeLog[j].uCanvasSizeY>>

C7_ResizeOnlySyncsScale ==
    /\ []ResizesDiffer
    /\ [][ IsResizeStep =>
             /\ IsHalfOf(uCanvasSizeX', canvas[1])
             /\ IsHalfOf(uCanvasSizeY', canvas[2])
             /\ UNCHANGED <<draws, maxDraws, buf, vbo, attribs, jsImage, texSize,
                            uTexSize, ready, canvas>> ]_vars

\* A second resize, at another canvas size, with draws pending and an atlas loaded.
C7_Witness ==
    /\ op = "resize" /\ thrown = "none"
    /\ Len(resizeLog) = 2
    /\ resizeLog[1].canvas # resizeLog[2].canvas
    /\ draws > 0
    /\ jsImage # << >>

(***************************************************************************)
(* C8.  The tint decode: for a <= 127 the colour multiplier is             *)
(* (r, g, b)/255 and the alpha multiplier a/127; for a > 127 the colour    *)
(* multiplier is (r, g, b) * 2^((a-127)/16) / 255 and the alpha multiplier *)
(* is 1.  (127,255,255,255) gives (1,1,1) and alpha 1, (0,255,0,0) gives   *)
(* alpha 0, (143,255,255,255) gives (2,2,2) and alpha 1.                   *)
(***************************************************************************)
\* v, a value <<n, d, e>> standing for (n/d) * 2^(e/16), equals c * 2^(k/16) / q.
IsValue(v, c, k, q) ==
    /\ v[2] > 0
    /\ v[1] * q = c * Pow2(k \div 16) * v[2]
    /\ (c = 0 /\ v[3] = 0) \/ (c # 0 /\ v[3] = k % 16)

One == <<1, 1, 0>>

Two == <<2, 1, 0>>

Zero == <<0, 1, 0>>

DecodesAsSpecified(i) ==
    LET a == i.aRgba[1]
        b == i.aRgba[2]
        g == i.aRgba[3]
        r == i.aRgba[4]
        f == i.fragAbgr
    IN  /\ a <= 127 =>
            /\ IsValue(f[1], r, 0, 255) /\ IsValue(f[2], g, 0, 255)
            /\ IsValue(f[3], b, 0, 255) /\ IsValue(f[4], a, 0, 127)
        /\ a > 127 =>
            /\ IsValue(f[1], r, a - 127, 255) /\ IsValue(f[2], g, a - 127, 255)
            /\ IsValue(f[3], b, a - 127, 255) /\ f[4] = One
        /\ i.aRgba = <<127, 255, 255, 255>> => f = <<One, One, One, One>>
        /\ i.aRgba = <<0, 0, 0, 255>> => f[4] = Zero
        /\ i.aRgba = <<143, 255, 255, 255>> => f = <<Two, Two, Two, One>>

C8_TintDecode == \A k \in DOMAIN rendered : DecodesAsSpecified(rendered[k])

\* One frame drew a brightened sprite and a fully transparent one.
C8_Witness ==
    /\ \E k \in DOMAIN rendered : rendered[k].aRgba = <<143, 255, 255, 255>>
    /\ \E k \in DOMAIN rendered : rendered[k].aRgba = <<0, 0, 0, 255>>

(***************************************************************************)
(* C9.  With rotation 0, which is what a draw without a rotation stores,   *)
(* corner m is at drawPos + drawSize * m; otherwise it is at               *)
(* drawPos + R(drawSize * (m - 0.5)) + drawSize/2; in both cases the four  *)
(* corners sum to 4 * drawPos + 2 * drawSize.                              *)
(***************************************************************************)
\* p, a rational, equals pos + (c * u - s * v)/2 + size/2 for rationals c and s.
IsRotated(p, pos, size, c, u, s, v) ==
    /\ p[2] > 0
    /\ p[1] * (2 * c[2] * s[2])
         = p[2] * (2 * c[2] * s[2] * pos + c[1] * s[2] * u - s[1] * c[2] * v
                   + c[2] * s[2] * size)

CornersAsSpecified(i) ==
    LET c == GpuCos(i.aRotation)
        s == GpuSin(i.aRotation)
        sum(j) == RAdd(RAdd(i.corners[1][j], i.corners[2][j]),
                       RAdd(i.corners[3][j], i.corners[4][j]))
    IN  /\ \A m \in 1..4 :
            LET mx == SizeMults[m][1]
                my == SizeMults[m][2]
                u  == i.aSize[1] * (2 * mx - 1)
                v  == i.aSize[2] * (2 * my - 1)
            IN  IF i.aRotation = <<0, 0, 0, 0>>
                THEN i.corners[m] = << <<i.aPos[1] + i.aSize[1] * mx, 1>>,
                                       <<i.aPos[2] + i.aSize[2] * my, 1>> >>
                ELSE /\ IsRotated(i.corners[m][1], i.aPos[1], i.aSize[1], c, u, s, v)
                     /\ IsRotated(i.corners[m][2], i.aPos[2], i.aSize[2],
                                  c, v, <<-s[1], s[2]>>, u)
        /\ sum(1) = <<4 * i.aPos[1] + 2 * i.aSize[1], 1>>
        /\ sum(2) = <<4 * i.aPos[2] + 2 * i.aSize[2], 1>>

C9_CornerPositions ==
    /\ \A k \in DOMAIN rendered : CornersAsSpecified(rendered[k])
    /\ phase = "ready" =>
          \A k \in FrameSlots :
              frameArgs[k + 1].rotation = NoArg =>
                  RecordBytes(buf, k, 20, 23) = <<0, 0, 0, 0>>

\* One frame drew a sprite without a rotation and one rotated by atan(4/3).
C9_Witness ==
    /\ \E k \in DOMAIN rendered :
          rendered[k].aRotation = <<0, 0, 0, 0>> /\ rendered[k].aSize = <<64, 48>>
    /\ \E k \in DOMAIN rendered : rendered[k].aRotation = Atan43Bits

(***************************************************************************)
(* C10.  At every flush the instance count times 24 equals the number of   *)
(* bytes uploaded and does not exceed the size of the buffer allocated at  *)
(* setup.                                                                  *)
(***************************************************************************)
C10_InstancesWithinUpload ==
    Flushed =>
        \A s \in Submissions(glCalls) : \A u \in Uploads(glCalls) :
            /\ glCalls[s].args[2] * 24 = glCalls[u].args[2]
            /\ glCalls[s].args[2] * 24 <= Cardinality(DOMAIN buf)

====
